---- MODULE Spec2Model ----
(***************************************************************************)
(* Model of the bounded conversation store of LoLa                         *)
(* (src/src/memory/store.ts, class MemoryStore) and of its ReAct loop      *)
(* (agentNode, toolsNode, shouldContinue, createGraph and the Logger),     *)
(* and of its BrowserController (src/src/browser/controller.ts).           *)
(*                                                                         *)
(* JavaScript arrays are objects: `this.messages.push(...)` mutates the    *)
(* array in place, `this.messages = [...]` rebinds the field to a new      *)
(* array, and `[...this.messages]` / `slice` allocate a new array.  The    *)
(* model keeps a small heap of arrays so that aliasing between the store   *)
(* and an array handed to the caller is something the checks can see.      *)
(***************************************************************************)
EXTENDS Integers, Sequences, FiniteSets, TLC

\* ---------------------------------------------------------------- bounds
MaxTurns == 6      \* message objects the callers create in one run
MaxBatch == 2      \* longest list passed to one addMessages call
MaxCap   == 3      \* largest maxMessages the store is constructed with
NegCaps  == 1      \* the smallest maxMessages is -NegCaps
MaxCount == 2      \* largest count passed to getRecentMessages
MaxHeld  == 4      \* message objects created in a run where the caller keeps snapshots
MaxRounds == 2     \* llm consultations in one graph run
MaxCalls  == 2     \* tool calls in one assistant message
MaxFaultyRounds == 1   \* llm consultations in a run whose logging sink may raise
MaxJoined == 4     \* message objects created in a run where the caller joins lists
MaxEnsure == 3     \* ensure() calls made on one BrowserController
MaxCloses == 1     \* close() calls made on one BrowserController

Caps  == (0 - NegCaps)..MaxCap
Types == {"system", "human", "ai"}     \* values of BaseMessage._getType()
Refs  == 0..2                          \* array objects alive at one time
NoRef == 0 - 1                         \* the caller holds no array

VARIABLES
    heap,          \* Refs -> the elements of each array object
    messages,      \* MemoryStore.messages: a reference into heap
    maxMessages,   \* MemoryStore.maxMessages
    snap,          \* the array the last getMessages() returned to the caller
    nextId,        \* identity of the next message object a caller creates
    appended,      \* history: turns passed to addMessages since the last clear()
    lastOp         \* the last call: its name, argument, return value, size on entry

\* the ReAct graph (agentNode, toolsNode, shouldContinue, createGraph)
VARIABLES
    pc,            \* where the graph run stands
    stateMessages, \* MessagesAnnotation state: state.messages
    results,       \* toolsNode: the local array `results`
    idx,           \* toolsNode: position of the for loop in toolCalls
    inflight,      \* awaited operations that have started and not yet settled
    consults,      \* history: number of llm invoke calls started
    failure,       \* what the graph run rejected with, if it did
    invoked        \* history: the tool invocations that settled, in order

loopVars == <<pc, stateMessages, results, idx, inflight, consults, failure, invoked>>

\* the BrowserController (src/src/browser/controller.ts)
VARIABLES
    browser,       \* BrowserController.browser: null, or a browser object
    page,          \* BrowserController.page: null, or a page object
    ensures,       \* the ensure() calls: where each stands, its locals, its result
    closing,       \* where the close() call stands
    launched,      \* history: number of chromium.launch calls made
    closes,        \* history: number of close() calls that completed
    closed         \* history: the browser objects close() was called on

browserVars == <<browser, page, ensures, closing, launched, closes, closed>>

vars == <<heap, messages, maxMessages, snap, nextId, appended, lastOp, loopVars,
          browserVars>>

\* ------------------------------------------------------------ JS helpers
Min(a, b) == IF a < b THEN a ELSE b
Max(a, b) == IF a > b THEN a ELSE b

\* Array.prototype.slice(start): a negative start counts from the end and
\* is clamped to 0, a positive one is clamped to the length; -0 is 0.
Slice(arr, start) ==
    LET len == Len(arr)
        k   == IF start < 0 THEN Max(len + start, 0) ELSE Min(start, len)
    IN  SubSeq(arr, k + 1, len)

\* Array.prototype.slice(start, end) for 0 <= start, 0 <= end
Slice2(arr, start, end) == SubSeq(arr, Min(start, Len(arr)) + 1, Min(end, Len(arr)))

IsSystem(m) == m.type = "system"
IsOther(m)  == m.type # "system"

Range(s) == {s[i] : i \in 1..Len(s)}

\* ------------------------------------------------ MemoryStore, pure parts
\* line 19: this.messages.push(...messages)
PushFront(arr, batch) == batch \o arr
Push(arr, batch) == arr \o batch

\* lines 24-27: the array built when the store is over its cap
TrimKeepsOldest(msgs, max) ==
    SelectSeq(msgs, IsSystem) \o Slice2(SelectSeq(msgs, IsOther), 0, max)
TrimDropsSystem(msgs, max) == Slice(msgs, 0 - max)
TrimOffByOne(msgs, max) ==
    SelectSeq(msgs, IsSystem) \o Slice(SelectSeq(msgs, IsOther), 0 - (max + 1))
TrimSystemLast(msgs, max) ==
    Slice(SelectSeq(msgs, IsOther), 0 - max) \o SelectSeq(msgs, IsSystem)
TrimOneShort(msgs, max) ==
    SelectSeq(msgs, IsSystem) \o SubSeq(SelectSeq(msgs, IsOther),
        Max(Len(SelectSeq(msgs, IsOther)) - max + 2, 1), Len(SelectSeq(msgs, IsOther)))
Trim(msgs, max) ==
    LET systemMessages == SelectSeq(msgs, IsSystem)
        otherMessages  == SelectSeq(msgs, IsOther)
        recentMessages == Slice(otherMessages, 0 - max)
    IN  systemMessages \o recentMessages

\* line 22: if (this.messages.length > this.maxMessages)
OverCap(msgs, max) == Len(msgs) > max

\* lines 18-29: the contents of this.messages when addMessages returns
AddMessagesResultBatchCap(msgs, max, batch) ==
    LET pushed == Push(msgs, batch)
    IN  IF OverCap(batch, max) THEN Trim(pushed, max) ELSE pushed
AddMessagesResult(msgs, max, batch) ==
    LET pushed == Push(msgs, batch)
    IN  IF OverCap(pushed, max) THEN Trim(pushed, max) ELSE pushed

\* lines 11-13: the fields after construction
NewStore(max) == [messages |-> <<>>, maxMessages |-> max]

\* ------------------------------------------------------------- the heap
Contents == heap[messages]                      \* elements of this.messages
Store    == [messages |-> Contents, maxMessages |-> maxMessages]
\* line 35: the elements of the array [...this.messages]
Snapshot == Contents

Live(m, s) == {m} \cup (IF s = NoRef THEN {} ELSE {s})
\* a new array object: the lowest reference no live variable holds
Alloc(live) == CHOOSE r \in Refs : r \notin live /\ \A q \in Refs : q < r => q \in live
\* arrays nothing refers to are reclaimed
Collect(h, live) == [r \in Refs |-> IF r \in live THEN h[r] ELSE <<>>]

\* line 56: this.messages.length
MessageCount == Len(Contents)

\* record of a call: name, argument, value returned (for addMessages, which
\* returns nothing: whether it took the branch of line 22), and the elements
\* of this.messages and the cap on entry
Call(op, arg, ret) ==
    [op |-> op, arg |-> arg, ret |-> ret, pre |-> Contents, cap |-> maxMessages]

\* message objects with fresh identities, of the given types
Fresh(ts) == [i \in 1..Len(ts) |-> [id |-> nextId + i - 1, type |-> ts[i]]]
TypeSeqs == UNION {[1..n -> Types] : n \in 0..MaxBatch}

\* the turn a caller may push onto an array it was handed
CallerTurn == [id |-> 0, type |-> "human"]

\* ----------------------------------------------------- BrowserController
\* null; a browser object is <<n>>, the n-th launched, and a page object is
\* <<n, i>>, opened in browser n by the ensure() call i
Null == <<>>
EnsureIds == 1..MaxEnsure
\* an ensure() call that has not been made
NotCalled == [pc |-> "idle", epoch |-> 0, b |-> 0, ret |-> Null]

\* lines 8-9: the fields after construction; nothing was called
NewController ==
    /\ browser = Null
    /\ page = Null
    /\ ensures = [i \in EnsureIds |-> NotCalled]
    /\ closing = "idle"
    /\ launched = 0
    /\ closes = 0
    /\ closed = {}

\* no graph run exists
NoRun ==
    /\ pc = "none"
    /\ stateMessages = <<>>
    /\ results = <<>>
    /\ idx = 0
    /\ inflight = {}
    /\ consults = 0
    /\ failure = "none"
    /\ invoked = <<>>

\* ------------------------------------------------------------- actions
Init ==
    /\ heap = [r \in Refs |-> <<>>]
    /\ messages = 0
    /\ maxMessages \in Caps
    /\ snap = NoRef
    /\ nextId = 1
    /\ appended = <<>>
    /\ lastOp = [op |-> "new", arg |-> maxMessages, ret |-> <<>>, pre |-> <<>>,
                 cap |-> maxMessages]
    /\ NoRun
    /\ NewController

\* lines 18-29
AddMessages(batch) ==
    LET pushed == Push(Contents, batch)
        h1     == [heap EXCEPT ![messages] = pushed]     \* line 19 is in place
        result == AddMessagesResult(Contents, maxMessages, batch)
    IN  /\ IF OverCap(pushed, maxMessages)
           THEN LET r == Alloc(Live(messages, snap))     \* line 27 rebinds
                IN  /\ messages' = r
                    /\ heap' = Collect([h1 EXCEPT ![r] = result], Live(r, snap))
           ELSE /\ messages' = messages
                /\ heap' = h1
        /\ appended' = appended \o batch
        /\ nextId' = nextId + Len(batch)
        /\ lastOp' = Call("addMessages", Len(batch), OverCap(pushed, maxMessages))
        /\ UNCHANGED <<maxMessages, snap, loopVars, browserVars>>

\* lines 34-36: return [...this.messages]; the caller only reads the result
GetMessages ==
    /\ lastOp' = Call("getMessages", 0, Snapshot)
    /\ UNCHANGED <<heap, messages, maxMessages, snap, nextId, appended, loopVars, browserVars>>

\* lines 34-36: return [...this.messages]; the caller keeps the returned array
GetMessagesAlias ==
    /\ snap' = messages
    /\ heap' = Collect(heap, Live(messages, messages))
    /\ lastOp' = Call("getMessages", 0, Snapshot)
    /\ UNCHANGED <<messages, maxMessages, nextId, appended, loopVars, browserVars>>
GetMessagesKeep ==
    LET r == Alloc({messages})
    IN  /\ snap' = r
        /\ heap' = Collect([heap EXCEPT ![r] = Snapshot], Live(messages, r))
        /\ lastOp' = Call("getMessages", 0, Snapshot)
        /\ UNCHANGED <<messages, maxMessages, nextId, appended, loopVars, browserVars>>

\* lines 41-43: return this.messages.slice(-count)
GetRecentMessages(count) ==
    /\ lastOp' = Call("getRecentMessages", count, Slice(Contents, 0 - count))
    /\ UNCHANGED <<heap, messages, maxMessages, snap, nextId, appended, loopVars, browserVars>>

\* lines 48-50: this.messages = []
ClearKeepsSystem ==
    LET r == Alloc(Live(messages, snap))
    IN  /\ messages' = r
        /\ heap' = Collect([heap EXCEPT ![r] = SelectSeq(Contents, IsSystem)], Live(r, snap))
        /\ appended' = <<>>
        /\ lastOp' = Call("clear", 0, <<>>)
        /\ UNCHANGED <<maxMessages, snap, nextId, loopVars, browserVars>>
Clear ==
    LET r == Alloc(Live(messages, snap))
    IN  /\ messages' = r
        /\ heap' = Collect([heap EXCEPT ![r] = <<>>], Live(r, snap))
        /\ appended' = <<>>
        /\ lastOp' = Call("clear", 0, <<>>)
        /\ UNCHANGED <<maxMessages, snap, nextId, loopVars, browserVars>>

\* lines 55-57: return this.messages.length
GetMessageCount ==
    /\ lastOp' = Call("getMessageCount", 0, MessageCount)
    /\ UNCHANGED <<heap, messages, maxMessages, snap, nextId, appended, loopVars, browserVars>>

\* the caller adds to the array getMessages() handed out
CallerPush ==
    /\ snap # NoRef
    /\ CallerTurn \notin Range(heap[snap])
    /\ heap' = [heap EXCEPT ![snap] = Append(@, CallerTurn)]
    /\ lastOp' = Call("callerPush", 0, <<>>)
    /\ UNCHANGED <<messages, maxMessages, snap, nextId, appended, loopVars, browserVars>>

\* the caller removes the last element of the array getMessages() handed out
CallerPop ==
    /\ snap # NoRef
    /\ Len(heap[snap]) > 0
    /\ heap' = [heap EXCEPT ![snap] = SubSeq(@, 1, Len(@) - 1)]
    /\ lastOp' = Call("callerPop", 0, <<>>)
    /\ UNCHANGED <<messages, maxMessages, snap, nextId, appended, loopVars, browserVars>>

AddSome(limit) ==
    \E ts \in TypeSeqs : nextId + Len(ts) - 1 <= limit /\ AddMessages(Fresh(ts))

Next ==
    \/ AddSome(MaxTurns)
    \/ GetMessages
    \/ \E count \in 0..MaxCount : GetRecentMessages(count)
    \/ Clear
    \/ GetMessageCount

Spec == Init /\ [][Next]_vars

\* the same store, with a caller that keeps and edits the arrays it is handed
NextCopy ==
    \/ AddSome(MaxHeld)
    \/ GetMessagesKeep
    \/ Clear
    \/ CallerPush
    \/ CallerPop

SpecCopy == Init /\ [][NextCopy]_vars

\* =================================================== the ReAct graph
\* names of the tools handed to createToolsNode, in array order
Catalog == <<"browser_goto", "browser_click">>
\* names the model lets the llm ask for: a tool of the catalog and a name
\* that is not in it
RequestNames == {"browser_goto", "unknown_tool"}
Undefined == "undefined"

\* tools.find((x) => x.name === name): the first match, or undefined
Find(tools, name) ==
    IF \E i \in 1..Len(tools) : tools[i] = name
    THEN tools[CHOOSE i \in 1..Len(tools) :
                 tools[i] = name /\ \A j \in 1..(i - 1) : tools[j] # name]
    ELSE Undefined

\* what a call of the logging sink can do
LogOK  == {"ok"}
LogAny == {"ok", "raise"}
\* e.message of what the sink raises
LogError == "log failure"

\* what `await t.invoke(args)` settles with: a text, or a raised error
\* (a rejected argument schema, a timeout and a failed page action all raise)
ToolOutcomes == {[ok |-> TRUE, text |-> "Navigated"], [ok |-> FALSE, text |-> "Timeout"]}

\* the user message the graph is invoked with
Human == [type |-> "human", content |-> <<"task">>]
\* contents of an assistant message that asks for no tool
Answers == {<<"done">>, <<>>}

\* the tool_calls arrays the llm may return on consultation n
CallSeqs(n) ==
    UNION {{[i \in 1..len |-> [id |-> <<n, i>>, name |-> names[i]]] :
              names \in [1..len -> RequestNames]} : len \in 0..MaxCalls}
AIMessage(content, calls) == [type |-> "ai", content |-> content, tool_calls |-> calls]

Last(s) == s[Len(s)]
\* last?.tool_calls ?? []
ToolCallsOf(msgs) ==
    IF Len(msgs) > 0 /\ Last(msgs).type = "ai" THEN Last(msgs).tool_calls ELSE <<>>

\* lines 67-72
UnknownResultNoName(call) ==
    [type |-> "tool", name |-> call.name,
     content |-> <<"ERROR", ":", "unknown", "tool">>,
     tool_call_id |-> call.id]
UnknownResult(call) ==
    [type |-> "tool", name |-> call.name,
     content |-> <<"ERROR", ":", "unknown", "tool", call.name>>,
     tool_call_id |-> call.id]
\* lines 91-96
OkResult(call, resultStr) ==
    [type |-> "tool", name |-> call.name, content |-> <<resultStr>>,
     tool_call_id |-> call.id]
\* lines 99-104
ErrResult(call, message) ==
    [type |-> "tool", name |-> call.name,
     content |-> <<"ERROR", "running", "tool", call.name, ":", message>>,
     tool_call_id |-> call.id]

\* results.push(...)
PushResultFront(rs, r) == <<r>> \o rs
PushResult(rs, r) == Append(rs, r)

\* lines 118-120: the node shouldContinue routes to
RouteAlwaysTools(msgs) == "tools"
RouteCapped(msgs) ==
    IF Len(ToolCallsOf(msgs)) # 0 /\ Len(msgs) < 4 THEN "tools" ELSE "END"
Route(msgs) == IF Len(ToolCallsOf(msgs)) # 0 THEN "tools" ELSE "END"

LlmOp       == [op |-> "llm"]
ToolOp(call) == [op |-> "tool", id |-> call.id]

\* the graph run rejects: the exception leaves the node and the run
Reject(why) ==
    /\ pc' = "failed"
    /\ failure' = why
    /\ results' = <<>>
    /\ idx' = 0
    /\ inflight' = {}
    /\ UNCHANGED <<stateMessages, consults, invoked>>

StoreIdle ==
    UNCHANGED <<heap, messages, maxMessages, snap, nextId, appended, lastOp, browserVars>>

\* a graph run is created and invoked with one user message
InitLoop ==
    /\ heap = [r \in Refs |-> <<>>]
    /\ messages = 0
    /\ maxMessages = 0
    /\ snap = NoRef
    /\ nextId = 1
    /\ appended = <<>>
    /\ lastOp = [op |-> "new", arg |-> 0, ret |-> <<>>, pre |-> <<>>, cap |-> 0]
    /\ pc = "start"
    /\ stateMessages = <<Human>>
    /\ results = <<>>
    /\ idx = 0
    /\ inflight = {}
    /\ consults = 0
    /\ failure = "none"
    /\ invoked = <<>>
    /\ NewController

\* line 145: addEdge(START, "agent")
Start ==
    /\ pc = "start"
    /\ pc' = "agent"
    /\ UNCHANGED <<stateMessages, results, idx, inflight, consults, failure, invoked>>
    /\ StoreIdle

\* lines 18-31: agentNode up to `await bound.invoke(...)`
AgentBegin(logs, limit) ==
    /\ pc = "agent"
    /\ consults < limit
    /\ \E l23 \in logs, l29 \in logs :
         IF (l23 = "raise" /\ \E i \in 1..Len(stateMessages) : stateMessages[i].type = "human")
            \/ l29 = "raise"
         THEN Reject("log")
         ELSE /\ pc' = "agent_wait"
              /\ inflight' = inflight \cup {LlmOp}
              /\ consults' = consults + 1
              /\ UNCHANGED <<stateMessages, results, idx, failure, invoked>>
    /\ StoreIdle

\* line 31: the llm call rejects; nothing in agentNode or the graph catches it
AgentFailRetry ==
    /\ pc = "agent_wait"
    /\ pc' = "agent"
    /\ inflight' = inflight \ {LlmOp}
    /\ UNCHANGED <<stateMessages, results, idx, consults, failure, invoked>>
    /\ StoreIdle
AgentFail ==
    /\ pc = "agent_wait"
    /\ Reject("llm")
    /\ StoreIdle

\* lines 31-44: the llm call resolves; the reducer appends the response
AgentReturn(logs) ==
    /\ pc = "agent_wait"
    /\ \E calls \in CallSeqs(consults), answer \in Answers, l37 \in logs :
         LET response == AIMessage(IF Len(calls) > 0 THEN <<>> ELSE answer, calls)
         IN  IF l37 = "raise"
             THEN Reject("log")
             ELSE /\ stateMessages' = Append(stateMessages, response)
                  /\ pc' = "route"
                  /\ inflight' = inflight \ {LlmOp}
                  /\ UNCHANGED <<results, idx, consults, failure, invoked>>
    /\ StoreIdle

\* lines 117-129 and line 146: the conditional edge out of "agent"
ShouldContinue(logs) ==
    /\ pc = "route"
    /\ \E l123 \in logs :
         IF l123 = "raise"
         THEN Reject("log")
         ELSE /\ pc' = IF Route(stateMessages) = "tools" THEN "tools" ELSE "end"
              /\ UNCHANGED <<stateMessages, results, idx, inflight, consults, failure, invoked>>
    /\ StoreIdle

\* lines 49-59: toolsNode up to the for loop
ToolsEnter(logs) ==
    /\ pc = "tools"
    /\ IF Len(ToolCallsOf(stateMessages)) = 0
       THEN \* line 56: return { messages: [] }, then line 147
            /\ pc' = "agent"
            /\ UNCHANGED <<stateMessages, results, idx, inflight, consults, failure, invoked>>
       ELSE \E l58 \in logs :
              IF l58 = "raise"
              THEN Reject("log")
              ELSE /\ pc' = "tools_loop"
                   /\ results' = <<>>
                   /\ idx' = 1
                   /\ UNCHANGED <<stateMessages, inflight, consults, failure, invoked>>
    /\ StoreIdle

\* lines 60-79: one iteration of the for loop, up to `await t.invoke(args)`
ToolsIterNoWait(logs) ==
    /\ pc = "tools_loop"
    /\ idx <= Len(ToolCallsOf(stateMessages))
    /\ LET call == ToolCallsOf(stateMessages)[idx]
       IN  /\ inflight' = inflight \cup {ToolOp(call)}
           /\ results' = PushResult(results, OkResult(call, "pending"))
           /\ idx' = idx + 1
           /\ UNCHANGED <<pc, stateMessages, consults, failure, invoked>>
    /\ StoreIdle
ToolsIter(logs) ==
    /\ pc = "tools_loop"
    /\ idx <= Len(ToolCallsOf(stateMessages))
    /\ LET call == ToolCallsOf(stateMessages)[idx]
           t    == Find(Catalog, call.name)
       IN  \E l66 \in logs, l77 \in logs, l98 \in logs :
             IF t = Undefined
             THEN IF l66 = "raise"
                  THEN Reject("log")
                  ELSE /\ results' = PushResult(results, UnknownResult(call))
                       /\ idx' = idx + 1              \* continue
                       /\ UNCHANGED <<pc, stateMessages, inflight, consults, failure, invoked>>
             ELSE IF l77 = "raise"
                  THEN \* the try block catches what line 77 raised
                       IF l98 = "raise"
                       THEN Reject("log")
                       ELSE /\ results' = PushResult(results, ErrResult(call, LogError))
                            /\ idx' = idx + 1
                            /\ UNCHANGED <<pc, stateMessages, inflight, consults, failure, invoked>>
                  ELSE /\ pc' = "tools_wait"
                       /\ inflight' = inflight \cup {ToolOp(call)}
                       /\ UNCHANGED <<stateMessages, results, idx, consults, failure, invoked>>
    /\ StoreIdle

\* lines 79-105: `t.invoke(args)` settles, the rest of the iteration
ToolsSettleRethrow(logs) ==
    /\ pc = "tools_wait"
    /\ LET call == ToolCallsOf(stateMessages)[idx]
       IN  \E out \in ToolOutcomes :
             IF out.ok
             THEN /\ invoked' = Append(invoked,
                                   [id |-> call.id, name |-> call.name, out |-> out])
                  /\ inflight' = inflight \ {ToolOp(call)}
                  /\ pc' = "tools_loop"
                  /\ results' = PushResult(results, OkResult(call, out.text))
                  /\ idx' = idx + 1
                  /\ UNCHANGED <<stateMessages, consults, failure>>
             ELSE Reject("tool")
    /\ StoreIdle
ToolsSettleBreak(logs) ==
    /\ pc = "tools_wait"
    /\ LET call == ToolCallsOf(stateMessages)[idx]
       IN  \E out \in ToolOutcomes :
             /\ invoked' = Append(invoked, [id |-> call.id, name |-> call.name, out |-> out])
             /\ inflight' = inflight \ {ToolOp(call)}
             /\ pc' = "tools_loop"
             /\ results' = PushResult(results,
                              IF out.ok THEN OkResult(call, out.text)
                                        ELSE ErrResult(call, out.text))
             /\ idx' = IF out.ok THEN idx + 1 ELSE Len(ToolCallsOf(stateMessages)) + 1
             /\ UNCHANGED <<stateMessages, consults, failure>>
    /\ StoreIdle
ToolsSettle(logs) ==
    /\ pc = "tools_wait"
    /\ LET call == ToolCallsOf(stateMessages)[idx]
       IN  \E out \in ToolOutcomes, l87 \in logs, l98 \in logs :
             LET caught == (~out.ok) \/ l87 = "raise"
                 message == IF out.ok THEN LogError ELSE out.text
             IN  IF caught /\ l98 = "raise"
                 THEN /\ Reject("log")
                 ELSE /\ invoked' = Append(invoked,
                                       [id |-> call.id, name |-> call.name, out |-> out])
                      /\ inflight' = inflight \ {ToolOp(call)}
                      /\ pc' = "tools_loop"
                      /\ results' = PushResult(results,
                                       IF caught THEN ErrResult(call, message)
                                                 ELSE OkResult(call, out.text))
                      /\ idx' = idx + 1
                      /\ UNCHANGED <<stateMessages, consults, failure>>
    /\ StoreIdle

\* line 108 and line 147: the reducer appends the results, then "agent"
ToolsReturnToEnd ==
    /\ pc = "tools_loop"
    /\ idx > Len(ToolCallsOf(stateMessages))
    /\ stateMessages' = stateMessages \o results
    /\ pc' = "end"
    /\ results' = <<>>
    /\ idx' = 0
    /\ UNCHANGED <<inflight, consults, failure, invoked>>
    /\ StoreIdle
ToolsReturn ==
    /\ pc = "tools_loop"
    /\ idx > Len(ToolCallsOf(stateMessages))
    /\ stateMessages' = stateMessages \o results
    /\ pc' = "agent"
    /\ results' = <<>>
    /\ idx' = 0
    /\ UNCHANGED <<inflight, consults, failure, invoked>>
    /\ StoreIdle

\* the graph with a logging sink that does not raise
NextLoop ==
    \/ Start
    \/ AgentBegin(LogOK, MaxRounds)
    \/ AgentFail
    \/ AgentReturn(LogOK)
    \/ ShouldContinue(LogOK)
    \/ ToolsEnter(LogOK)
    \/ ToolsIter(LogOK)
    \/ ToolsSettle(LogOK)
    \/ ToolsReturn

SpecLoop == InitLoop /\ [][NextLoop]_vars

\* the graph with a logging sink whose calls may raise
NextFaulty ==
    \/ Start
    \/ AgentBegin(LogAny, MaxFaultyRounds)
    \/ AgentFail
    \/ AgentReturn(LogAny)
    \/ ShouldContinue(LogAny)
    \/ ToolsEnter(LogAny)
    \/ ToolsIter(LogAny)
    \/ ToolsSettle(LogAny)
    \/ ToolsReturn

SpecFaulty == InitLoop /\ [][NextFaulty]_vars

\* ============================== a caller that passes lists it has joined
\* addMessages([...a, ...b]) for two lists a and b of new message objects
AddJoined ==
    \E ta \in TypeSeqs, tb \in TypeSeqs :
        /\ nextId + Len(ta) + Len(tb) - 1 <= MaxJoined
        /\ AddMessages(Fresh(ta \o tb))

NextJoin ==
    \/ AddJoined
    \/ Clear

SpecJoin == Init /\ [][NextJoin]_vars

\* ==================================================== BrowserController
\* JavaScript runs a call up to its next `await` without interruption; what
\* is awaited settles at a time the browser process decides, and the calls
\* that wait resume in the order their awaits settle.
OthersIdle ==
    UNCHANGED <<heap, messages, maxMessages, snap, nextId, appended, lastOp, loopVars>>

InFlight(i) == ensures[i].pc \in {"launch", "newContext", "newPage"}
\* the object ctx.newPage() resolves to, for a context of browser b
NewPage(b, i) == <<b, i>>

\* lines 12-13 and 17-18: ensure() is called and runs to its first await, or
\* to its end when it finds this.browser set
EnsureCall(i) ==
    /\ ensures[i].pc = "idle"
    /\ closing = "idle"
    /\ IF browser = Null
       THEN /\ launched' = launched + 1          \* chromium.launch(...)
            /\ ensures' = [ensures EXCEPT ![i] =
                   [pc |-> "launch", epoch |-> closes, b |-> launched + 1, ret |-> Null]]
       ELSE /\ launched' = launched
            /\ ensures' = [ensures EXCEPT ![i] =
                   IF page = Null                 \* line 17
                   THEN [pc |-> "threw", epoch |-> closes, b |-> 0, ret |-> Null]
                   ELSE [pc |-> "returned", epoch |-> closes, b |-> 0, ret |-> page]]
    /\ UNCHANGED <<browser, page, closing, closes, closed>>
    /\ OthersIdle

\* lines 13-14: the launch resolves; this.browser is assigned and
\* this.browser.newContext() is called
LaunchSettles(i) ==
    /\ ensures[i].pc = "launch"
    /\ browser' = <<ensures[i].b>>
    /\ ensures' = [ensures EXCEPT ![i].pc = "newContext"]
    /\ UNCHANGED <<page, closing, launched, closes, closed>>
    /\ OthersIdle

\* lines 14-15: the context resolves; ctx.newPage() is called
ContextSettles(i) ==
    /\ ensures[i].pc = "newContext"
    /\ ensures' = [ensures EXCEPT ![i].pc = "newPage"]
    /\ UNCHANGED <<browser, page, closing, launched, closes, closed>>
    /\ OthersIdle

\* lines 15-18: the page resolves; this.page is assigned and returned
PageSettles(i) ==
    /\ ensures[i].pc = "newPage"
    /\ page' = NewPage(ensures[i].b, i)
    /\ ensures' = [ensures EXCEPT ![i].pc = "returned", ![i].ret = page']
    /\ UNCHANGED <<browser, closing, launched, closes, closed>>
    /\ OthersIdle

\* line 22: close() is called, when no ensure() call is waiting;
\* this.page?.close() is awaited
CloseCall ==
    /\ closing = "idle"
    /\ closes < MaxCloses
    /\ \A i \in EnsureIds : ~InFlight(i)
    /\ closing' = "page"
    /\ UNCHANGED <<browser, page, ensures, launched, closes, closed>>
    /\ OthersIdle

\* lines 22-23: the page is closed; this.browser?.close() is awaited
ClosePageSettles ==
    /\ closing = "page"
    /\ closing' = "browser"
    /\ closed' = IF browser = Null THEN closed ELSE closed \cup {browser}
    /\ UNCHANGED <<browser, page, ensures, launched, closes>>
    /\ OthersIdle

\* lines 23-25: the browser is closed; both fields are reset
CloseBrowserSettles ==
    /\ closing = "browser"
    /\ page' = Null
    /\ browser' = Null
    /\ closing' = "idle"
    /\ closes' = closes + 1
    /\ UNCHANGED <<ensures, launched, closed>>
    /\ OthersIdle

NextBrowser ==
    \/ \E i \in EnsureIds : EnsureCall(i)
    \/ \E i \in EnsureIds : LaunchSettles(i)
    \/ \E i \in EnsureIds : ContextSettles(i)
    \/ \E i \in EnsureIds : PageSettles(i)
    \/ CloseCall
    \/ ClosePageSettles
    \/ CloseBrowserSettles

\* one controller; no store call and no graph run is made
InitBrowser ==
    /\ heap = [r \in Refs |-> <<>>]
    /\ messages = 0
    /\ maxMessages = 0
    /\ snap = NoRef
    /\ nextId = 1
    /\ appended = <<>>
    /\ lastOp = [op |-> "new", arg |-> 0, ret |-> <<>>, pre |-> <<>>, cap |-> 0]
    /\ NoRun
    /\ NewController

SpecBrowser == InitBrowser /\ [][NextBrowser]_vars

\* ================================= a session that keeps its turns in a store
\* a message object: the fields of m, and an identity
Turn(k, m) == [id |-> k] @@ m

\* the standing instruction a session may seed its store with
SystemMessage == [type |-> "system", content |-> <<"instruction">>]

\* the message toolsNode builds for one call of an assistant message
ResultFor(call) ==
    IF Find(Catalog, call.name) = Undefined
    THEN UnknownResult(call)
    ELSE OkResult(call, "Navigated")

\* the array toolsNode returns for the calls of the assistant message, as
\* message objects with fresh identities
ResultBatch(calls) ==
    [i \in 1..Len(calls) |-> Turn(nextId + i - 1, ResultFor(calls[i]))]

\* the store is seeded with the standing instruction at session start
AppendInstruction ==
    /\ lastOp.op = "new"
    /\ AddMessages(<<Turn(nextId, SystemMessage)>>)

\* a user message arrives: at session start, or after a final answer
AppendUser ==
    /\ IF appended = <<>> THEN TRUE
       ELSE IF Last(appended).type = "ai" THEN Len(Last(appended).tool_calls) = 0
       ELSE Last(appended).type = "system"
    /\ nextId <= MaxTurns
    /\ AddMessages(<<Turn(nextId, Human)>>)

\* the assistant message of one consultation is appended
AppendAssistant ==
    /\ appended # <<>>
    /\ Last(appended).type \in {"human", "tool"}
    /\ nextId <= MaxTurns
    /\ \E calls \in CallSeqs(nextId) :
          AddMessages(<<Turn(nextId, AIMessage(<<>>, calls))>>)

\* the results of the last assistant message are appended as one batch
AppendResults ==
    /\ appended # <<>>
    /\ Last(appended).type = "ai"
    /\ Len(Last(appended).tool_calls) > 0
    /\ nextId + Len(Last(appended).tool_calls) - 1 <= MaxTurns
    /\ AddMessages(ResultBatch(Last(appended).tool_calls))

NextSession ==
    \/ AppendInstruction
    \/ AppendUser
    \/ AppendAssistant
    \/ AppendResults

SpecSession == Init /\ [][NextSession]_vars

\* ------------------------------------------------- vocabulary of the claims
HasSystem(s) == \E i \in 1..Len(s) : IsSystem(s[i])
Others(s)    == SelectSeq(s, IsOther)
LastN(s, n)  == SubSeq(s, Len(s) - n + 1, Len(s))
Pos(s, x)    == CHOOSE k \in 1..Len(s) : s[k] = x
AfterAdd     == lastOp.op = "addMessages"

\* C1: after each addMessages call, getMessageCount() minus (1 if an
\* instruction turn is present, else 0) is at most M, for every cap M and
\* every mix of instruction and non-instruction turns.
C1_HistoryCap ==
    AfterAdd => MessageCount - (IF HasSystem(Contents) THEN 1 ELSE 0) <= maxMessages

\* C1 as amended: for every cap M >= 1, after each addMessages call
\* getMessageCount() minus the number of instruction turns present is at most M.
C1_HistoryCapAmended ==
    (AfterAdd /\ maxMessages >= 1) =>
        MessageCount - Len(SelectSeq(Contents, IsSystem)) <= maxMessages

\* two instruction turns and M other turns are held after an eviction
C1_Witness ==
    /\ AfterAdd
    /\ lastOp.ret
    /\ maxMessages >= 1
    /\ Len(SelectSeq(Contents, IsSystem)) = 2
    /\ Len(Others(Contents)) = maxMessages
    /\ Len(Others(appended)) > maxMessages

\* C2: an instruction turn passed to addMessages is in the result of every
\* later getMessages() call until clear(), whatever M is.
C2_InstructionRetention ==
    \A i \in 1..Len(appended) :
        IsSystem(appended[i]) =>
            /\ appended[i] \in Range(Snapshot)
            /\ lastOp.op = "getMessages" => appended[i] \in Range(lastOp.ret)

C2_Witness ==
    /\ lastOp.op = "getMessages"
    /\ HasSystem(appended)
    /\ Len(Others(lastOp.ret)) < Len(Others(appended))
    /\ \E i \in 1..Len(appended) : IsSystem(appended[i]) /\ appended[i] \in Range(lastOp.ret)

\* C3: for M >= 1 the non-instruction turns of getMessages() are exactly the
\* last min(M, n) of the n non-instruction turns appended since the last clear().
C3_KeepsNewest ==
    maxMessages >= 1 =>
        Others(Snapshot) = LastN(Others(appended), Min(maxMessages, Len(Others(appended))))

\* M = 3, one instruction turn then five other turns: the instruction turn
\* and the last three remain
C3_Witness ==
    /\ maxMessages = 3
    /\ Len(appended) = 6
    /\ IsSystem(appended[1])
    /\ Len(Others(appended)) = 5
    /\ Snapshot = <<appended[1], appended[4], appended[5], appended[6]>>

\* C4: two retained non-instruction turns appear in getMessages() in the
\* order in which they were appended.
C4_OrderPreserved ==
    \A i, j \in 1..Len(Snapshot) :
        (i < j /\ IsOther(Snapshot[i]) /\ IsOther(Snapshot[j])) =>
            /\ Snapshot[i] \in Range(appended)
            /\ Snapshot[j] \in Range(appended)
            /\ Pos(appended, Snapshot[i]) < Pos(appended, Snapshot[j])

C4_Witness ==
    /\ AfterAdd
    /\ lastOp.ret
    /\ Len(Others(Snapshot)) >= 2
    /\ Len(Others(Snapshot)) < Len(Others(appended))
    /\ HasSystem(Snapshot)

\* C5: with M <= 0 the store retains, after every addMessages call, only
\* instruction turns.
C5_NonPositiveCap ==
    (AfterAdd /\ maxMessages <= 0) => \A i \in 1..Len(Contents) : IsSystem(Contents[i])

\* C6: addMessages([]) leaves the stored sequence and getMessageCount()
\* unchanged, in every reachable state and for every M.
C6_EmptyAddNoOp ==
    (AfterAdd /\ lastOp.arg = 0) =>
        /\ Contents = lastOp.pre
        /\ MessageCount = Len(lastOp.pre)

\* C7: in every reachable state getMessages() returns all instruction turns
\* first, in original relative order, then the retained other turns in
\* original relative order.
SystemFirst(s) == \A i, j \in 1..Len(s) : (i < j /\ IsSystem(s[j])) => IsSystem(s[i])
RelativeOrder(s) ==
    \A i, j \in 1..Len(s) :
        (i < j /\ IsSystem(s[i]) = IsSystem(s[j])) =>
            Pos(appended, s[i]) < Pos(appended, s[j])

C7_SnapshotLayout == SystemFirst(Snapshot) /\ RelativeOrder(Snapshot)

\* C7 as amended: getMessages() always returns the instruction turns in their
\* original relative order and the other turns in theirs; the instruction
\* turns come first in every state left by an addMessages call that took the
\* trimming branch, and in every state holding more than M turns.
C7_SnapshotLayoutAmended ==
    /\ RelativeOrder(Snapshot)
    /\ (AfterAdd /\ lastOp.ret) => SystemFirst(Snapshot)
    /\ OverCap(Snapshot, maxMessages) => SystemFirst(Snapshot)
    /\ lastOp.op = "getMessages" => lastOp.ret = Snapshot

\* trimming moved an instruction turn in front of a turn appended before it
C7_Witness ==
    /\ lastOp.op = "getMessages"
    /\ OverCap(lastOp.ret, maxMessages)
    /\ Len(lastOp.ret) >= 3
    /\ IsSystem(lastOp.ret[1])
    /\ IsOther(lastOp.ret[2])
    /\ Pos(appended, lastOp.ret[2]) < Pos(appended, lastOp.ret[1])

\* C8: for n >= 0, getRecentMessages(n) returns exactly the last
\* min(n, size) turns of the stored sequence.
C8_Tail ==
    lastOp.op = "getRecentMessages" =>
        lastOp.ret = LastN(Contents, Min(lastOp.arg, MessageCount))

\* C9: an array returned by getMessages() is not changed by later addMessages
\* and clear() calls, and the caller adding to or removing from it does not
\* change the store's contents or getMessageCount().
StoreCall  == lastOp'.op \in {"addMessages", "clear"}
CallerEdit == lastOp'.op \in {"callerPush", "callerPop"}
C9_DefensiveCopy ==
    [][ /\ (StoreCall /\ snap # NoRef) => (snap' = snap /\ heap'[snap] = heap[snap])
        /\ CallerEdit => (Contents' = Contents /\ MessageCount' = MessageCount)
        /\ lastOp'.op = "getMessages" => heap'[snap'] = Contents ]_vars

\* the caller pushed onto its array, then the store trimmed: the two differ
C9_Witness ==
    /\ snap # NoRef
    /\ AfterAdd
    /\ lastOp.ret
    /\ CallerTurn \in Range(heap[snap])
    /\ Len(heap[snap]) >= 3
    /\ CallerTurn \notin Range(Contents)
    /\ Len(Contents) >= 1

\* C10: right after clear() the store is empty (instruction turns included),
\* the cap is unchanged, and addMessages then behaves as on a store freshly
\* constructed with the same cap.
C10_Clear ==
    lastOp.op = "clear" =>
        /\ MessageCount = 0
        /\ Snapshot = <<>>
        /\ maxMessages = lastOp.cap
        /\ Store = NewStore(lastOp.cap)
        /\ \A ts \in TypeSeqs :
              AddMessagesResult(Contents, maxMessages, Fresh(ts))
                = AddMessagesResult(NewStore(lastOp.cap).messages,
                                    NewStore(lastOp.cap).maxMessages, Fresh(ts))

\* clear() was called on a store holding an instruction turn and other turns
C10_Witness ==
    /\ lastOp.op = "clear"
    /\ HasSystem(lastOp.pre)
    /\ Len(Others(lastOp.pre)) >= 2
    /\ Contents = <<>>

\* ------------------------------------------- vocabulary of the loop claims
ToolCalls   == ToolCallsOf(stateMessages)
CallIds(cs) == [i \in 1..Len(cs) |-> cs[i].id]
ResultIds(rs) == [i \in 1..Len(rs) |-> rs[i].tool_call_id]
InBatch     == pc \in {"tools_loop", "tools_wait"}
BatchDone   == pc = "tools_loop" /\ idx > Len(ToolCalls)
Known(name) == Find(Catalog, name) # Undefined
IsErr(r)    == Len(r.content) >= 1 /\ r.content[1] = "ERROR"
Contains(c, sub) ==
    \E k \in 0..(Len(c) - Len(sub)) : \A i \in 1..Len(sub) : c[k + i] = sub[i]
InvokedIds  == {invoked[i].id : i \in 1..Len(invoked)}
\* every tool message the run has produced so far
Produced    == SelectSeq(stateMessages, LAMBDA m : m.type = "tool") \o results

\* C11: for an assistant turn with request ids [i1..iN], toolsNode returns
\* exactly N result turns whose tool_call_id values are [i1..iN] in that order.
C11_DispatchOrder ==
    /\ InBatch => ResultIds(results) = CallIds(SubSeq(ToolCalls, 1, idx - 1))
    /\ BatchDone => ResultIds(results) = CallIds(ToolCalls)

\* a finished batch of two or more results that mixes an unknown name with an
\* invoked tool
C11_Witness ==
    /\ BatchDone
    /\ Len(results) >= 2
    /\ \E i, j \in 1..Len(results) : ~Known(results[i].name) /\ Known(results[j].name)
    /\ ResultIds(results) = CallIds(ToolCalls)

\* C12: in one batch a failing request never keeps another request from being
\* invoked, and every request whose action succeeds yields a result carrying
\* the action's text, wherever it stands relative to the failing requests.
C12_FailureIsolation ==
    BatchDone =>
        \A i \in 1..Len(ToolCalls) :
            Known(ToolCalls[i].name) =>
                \E k \in 1..Len(invoked) :
                    /\ invoked[k].id = ToolCalls[i].id
                    /\ invoked[k].out.ok =>
                          /\ Len(results) >= i
                          /\ results[i] = OkResult(ToolCalls[i], invoked[k].out.text)

\* the first request failed, the second was invoked and succeeded
C12_Witness ==
    /\ BatchDone
    /\ Len(results) = 2
    /\ IsErr(results[1])
    /\ ~IsErr(results[2])
    /\ ToolCalls[2].id \in InvokedIds

\* C13: a request whose name is in no catalog entry yields exactly one Err
\* result tagged with its id, whose content contains "unknown action", and
\* nothing is invoked for it.
UnknownHandled(phrase) ==
    \A i \in 1..Len(Produced) :
        ~Known(Produced[i].name) =>
            /\ IsErr(Produced[i])
            /\ Contains(Produced[i].content, phrase)
            /\ \A j \in 1..Len(Produced) :
                  Produced[j].tool_call_id = Produced[i].tool_call_id => j = i
            /\ Produced[i].tool_call_id \notin InvokedIds
EveryUnknownAnswered ==
    InBatch => \A i \in 1..(idx - 1) :
                  ~Known(ToolCalls[i].name) =>
                      /\ results[i].tool_call_id = ToolCalls[i].id
                      /\ results[i].name = ToolCalls[i].name

C13_UnknownAction == UnknownHandled(<<"unknown", "action">>) /\ EveryUnknownAnswered

\* C13 as amended: the content is ERROR: unknown tool "<name>"
C13_UnknownTool ==
    /\ EveryUnknownAnswered
    /\ \A i \in 1..Len(Produced) :
          ~Known(Produced[i].name) =>
              UnknownHandled(<<"ERROR", ":", "unknown", "tool", Produced[i].name>>)

C13_Witness ==
    /\ BatchDone
    /\ Len(results) = 1
    /\ ToolCalls[1].name = "unknown_tool"
    /\ results[1].tool_call_id = ToolCalls[1].id
    /\ invoked = <<>>

AiCount     == Len(SelectSeq(stateMessages, LAMBDA m : m.type = "ai"))
LastIsFinal ==
    /\ Len(stateMessages) > 0
    /\ Last(stateMessages).type = "ai"
    /\ Len(Last(stateMessages).tool_calls) = 0

\* C14: when the llm returns an assistant turn with no tool call the graph
\* routes to END, that turn stays the last turn of the state with its content,
\* no tool is invoked and the llm is not consulted again.
C14_EmptyListEnds ==
    /\ LastIsFinal =>
          /\ pc \in {"route", "end"}
          /\ inflight = {}
          /\ results = <<>>
          /\ Last(stateMessages).content \in Answers
          /\ AiCount = consults
          /\ \A k \in 1..Len(invoked) : invoked[k].id[1] < consults
    /\ pc = "end" => LastIsFinal

\* END reached after one round of tool calls
C14_Witness ==
    /\ pc = "end"
    /\ consults = 2
    /\ invoked # <<>>
    /\ Last(stateMessages).content = <<"done">>

\* C15: toolsNode never raises; every outcome (unknown name, rejected
\* arguments, raised or timed-out invocation, success) becomes exactly one
\* result turn with the request's id and name, failures with an ERROR prefix.
C15_DispatcherTotal ==
    /\ failure \in {"none", "llm"}
    /\ pc = "failed" => failure = "llm"
    /\ InBatch =>
          /\ Len(results) = idx - 1
          /\ \A i \in 1..(idx - 1) :
                /\ results[i].tool_call_id = ToolCalls[i].id
                /\ results[i].name = ToolCalls[i].name
                /\ ~Known(ToolCalls[i].name) => IsErr(results[i])
                /\ \A k \in 1..Len(invoked) :
                      invoked[k].id = ToolCalls[i].id =>
                          IF invoked[k].out.ok
                          THEN results[i].content = <<invoked[k].out.text>>
                          ELSE IsErr(results[i])
                               /\ Contains(results[i].content, <<invoked[k].out.text>>)

\* a raised invocation and an unknown name, both turned into results
C15_Witness ==
    /\ BatchDone
    /\ Len(results) = 2
    /\ Known(results[1].name) /\ IsErr(results[1])
    /\ ~Known(results[2].name) /\ IsErr(results[2])
    /\ failure = "none"

\* C16: a failed llm call in agentNode leaves the loop as the run's failure:
\* no assistant turn is appended for it, nothing is dispatched afterwards and
\* the llm call is not tried again.
OracleFailureState ==
    /\ failure = "llm" =>
          /\ pc = "failed"
          /\ AiCount = consults - 1
          /\ inflight = {}
          /\ results = <<>>
          /\ \A k \in 1..Len(invoked) : invoked[k].id[1] < consults
    /\ consults \in {AiCount, AiCount + 1}
    /\ consults = AiCount + 1 => pc \in {"agent_wait", "failed"}
C16_OracleFailure ==
    [][ OracleFailureState' /\ (failure = "llm" => UNCHANGED vars) ]_vars

\* the second consultation failed, after a batch had been dispatched
C16_Witness ==
    /\ failure = "llm"
    /\ pc = "failed"
    /\ consults = 2
    /\ invoked # <<>>
    /\ AiCount = 1

\* C17: when calls of the logging sink may raise, the llm consultations, tool
\* invocations, result turns and the final answer are those of the run in
\* which logging succeeds: no log failure ends the run, and every request
\* for a catalog tool is invoked and answered with what the tool did.
C17_LoggingInert ==
    /\ failure \in {"none", "llm"}
    /\ InBatch =>
          \A i \in 1..(idx - 1) :
              Known(ToolCalls[i].name) =>
                  \E k \in 1..Len(invoked) :
                      /\ invoked[k].id = ToolCalls[i].id
                      /\ results[i] = IF invoked[k].out.ok
                                      THEN OkResult(ToolCalls[i], invoked[k].out.text)
                                      ELSE ErrResult(ToolCalls[i], invoked[k].out.text)

\* C18: in state.messages every assistant turn with N >= 1 tool calls is
\* followed at once by exactly its N result turns (same ids, same order),
\* appended as one batch before the next llm consultation, and after every
\* batch control goes back to the llm.
BatchAfter(i) ==
    LET calls == stateMessages[i].tool_calls
        n     == Len(calls)
    IN  /\ i + n <= Len(stateMessages)
        /\ \A j \in 1..n :
              /\ stateMessages[i + j].type = "tool"
              /\ stateMessages[i + j].tool_call_id = calls[j].id
        /\ i + n < Len(stateMessages) => stateMessages[i + n + 1].type = "ai"
C18_Alternation ==
    /\ stateMessages[1] = Human
    /\ \A i \in 2..Len(stateMessages) :
          /\ stateMessages[i].type \in {"ai", "tool"}
          /\ stateMessages[i].type = "ai" => stateMessages[i - 1].type \in {"human", "tool"}
          /\ stateMessages[i].type = "tool" =>
                \E a \in 1..(i - 1) :
                    /\ stateMessages[a].type = "ai"
                    /\ i - a <= Len(stateMessages[a].tool_calls)
                    /\ \A b \in (a + 1)..(i - 1) : stateMessages[b].type = "tool"
    /\ \A i \in 1..Len(stateMessages) :
          (stateMessages[i].type = "ai" /\ Len(stateMessages[i].tool_calls) >= 1) =>
              IF i = Len(stateMessages)
              THEN pc \in {"route", "tools", "tools_loop", "tools_wait"}
              ELSE BatchAfter(i)
    /\ Last(stateMessages).type = "tool" => pc \in {"agent", "agent_wait", "failed"}
    /\ pc \in {"agent", "agent_wait"} => Last(stateMessages).type \in {"human", "tool"}

\* a batch of two results between two assistant turns
C18_Witness ==
    /\ Len(stateMessages) = 5
    /\ stateMessages[2].type = "ai"
    /\ Len(stateMessages[2].tool_calls) = 2
    /\ BatchAfter(2)
    /\ stateMessages[5].type = "ai"
    /\ consults = 2

\* C19: at most one awaited operation is in flight: an llm consultation never
\* overlaps a tool invocation, and the invocation for request k+1 starts only
\* after the one for request k has settled.
C19_Sequential ==
    /\ Cardinality(inflight) <= 1
    /\ LlmOp \in inflight <=> pc = "agent_wait"
    /\ pc = "tools_wait" <=> \E op \in inflight : op.op = "tool"
    /\ pc = "tools_wait" =>
          /\ inflight = {ToolOp(ToolCalls[idx])}
          /\ \A i \in 1..(idx - 1) :
                Known(ToolCalls[i].name) => ToolCalls[i].id \in InvokedIds
    /\ \A j, k \in 1..Len(invoked) :
          (j < k /\ invoked[j].id[1] = invoked[k].id[1]) => invoked[j].id[2] < invoked[k].id[2]

\* the second invocation of a batch is in flight, the first has settled
C19_Witness ==
    /\ pc = "tools_wait"
    /\ idx = 2
    /\ ToolCalls[1].id \in InvokedIds
    /\ inflight = {ToolOp(ToolCalls[2])}

\* C20: the loop has no cap on the number of rounds: whenever the llm asks
\* for a tool the graph goes to the tools node, however many rounds have
\* passed, and END is reached only on an assistant turn without tool calls.
C20_NoIterationCap ==
    [][ /\ (pc = "route" /\ Len(ToolCalls) > 0) => pc' = "tools"
        /\ pc' = "end" => Len(ToolCallsOf(stateMessages')) = 0 ]_vars

\* every consultation the bound allows asked for tools and was dispatched
C20_Witness ==
    /\ pc = "agent"
    /\ consults = MaxRounds
    /\ AiCount = MaxRounds
    /\ Last(stateMessages).type = "tool"
    /\ \A i \in 1..Len(stateMessages) :
          stateMessages[i].type = "ai" => Len(stateMessages[i].tool_calls) >= 1

\* ------------------------------------- vocabulary of the session claims
IsResult(m) == m.type = "tool"
\* the assistant turn that carries the request a result turn answers
Originates(a, r) ==
    /\ a.type = "ai"
    /\ \E i \in 1..Len(a.tool_calls) : a.tool_calls[i].id = r.tool_call_id
Origin(r) == CHOOSE a \in Range(appended) : Originates(a, r)
\* non-instruction turns appended from turn a on, a included
OthersSince(a) ==
    Len(SelectSeq(SubSeq(appended, Pos(appended, a), Len(appended)), IsOther))

\* C21: with a cap M >= 1, every retained action-result turn's originating
\* assistant turn is retained too, and stands before it in the store.
C21_NoOrphanedResults ==
    maxMessages >= 1 =>
        \A i \in 1..Len(Contents) :
            IsResult(Contents[i]) =>
                \E j \in 1..(i - 1) : Originates(Contents[j], Contents[i])

\* C21 as amended: with a cap M >= 1, the originating assistant turn of a
\* retained action-result turn is retained exactly when at most M
\* non-instruction turns were appended from it on (itself included), and
\* when it is retained it stands before the result.
C21_OriginRetainedWithinCap ==
    maxMessages >= 1 =>
        \A i \in 1..Len(Contents) :
            IsResult(Contents[i]) =>
                LET a == Origin(Contents[i])
                IN  /\ a \in Range(Contents) <=> OthersSince(a) <= maxMessages
                    /\ a \in Range(Contents) => Pos(Contents, a) < i

\* a store that has evicted turns holds a result together with its
\* assistant turn
C21_Witness ==
    /\ maxMessages >= 1
    /\ lastOp.op = "addMessages"
    /\ Len(Others(appended)) > maxMessages
    /\ \E i \in 1..Len(Contents) :
          /\ IsResult(Contents[i])
          /\ Origin(Contents[i]) \in Range(Contents)

\* the list the last addMessages call was passed
LastBatch == LastN(appended, lastOp.arg)
\* this.messages after addMessages(a) followed by addMessages(b), from msgs
AddTwice(msgs, max, a, b) ==
    AddMessagesResult(AddMessagesResult(msgs, max, a), max, b)

\* C22: with a cap M >= 1, one addMessages call with the list a ++ b leaves
\* the store holding the same turns in the same order as addMessages(a)
\* followed by addMessages(b) from the same state, however the list splits.
C22_BatchSplitting ==
    (AfterAdd /\ maxMessages >= 1) =>
        \A k \in 0..Len(LastBatch) :
            AddTwice(lastOp.pre, maxMessages,
                     SubSeq(LastBatch, 1, k),
                     SubSeq(LastBatch, k + 1, Len(LastBatch))) = Contents

\* a list was added whose first part alone already puts the store over its
\* cap, so that the two calls trim twice where the one call trims once
C22_Witness ==
    /\ AfterAdd
    /\ maxMessages >= 1
    /\ lastOp.pre # <<>>
    /\ HasSystem(LastBatch)
    /\ \E k \in 1..(Len(LastBatch) - 1) :
          /\ OverCap(Push(lastOp.pre, SubSeq(LastBatch, 1, k)), maxMessages)
          /\ Len(Contents) < Len(lastOp.pre) + Len(LastBatch)

\* ---------------------------------- vocabulary of the controller claims
\* the ensure() calls made after e close() calls had completed
CallsOf(e) == {i \in EnsureIds : ensures[i].pc # "idle" /\ ensures[i].epoch = e}
Launchers(e) == {i \in CallsOf(e) : ensures[i].b # 0}
Returned(e) == {i \in CallsOf(e) : ensures[i].pc = "returned"}

\* C23: among the ensure() calls with no close() between them, however they
\* interleave, at most one launches a browser, all return the same page and
\* none fails with "Browser page not initialized"; when close() has
\* completed both fields are null, and the next ensure() launches a
\* browser that was not closed.
C23_SingleBrowser ==
    /\ \A e \in 0..MaxCloses :
          /\ Cardinality(Launchers(e)) <= 1
          /\ \A i \in CallsOf(e) : ensures[i].pc # "threw"
          /\ \A i \in Returned(e), j \in Returned(e) : ensures[i].ret = ensures[j].ret
    /\ \A e \in 1..MaxCloses :
          /\ (closes = e /\ closing = "idle" /\ CallsOf(e) = {}) =>
                 (browser = Null /\ page = Null)
          /\ \A i \in Returned(e) :
                 /\ <<ensures[i].ret[1]>> \notin closed
                 /\ \E j \in Launchers(e) : ensures[j].b = ensures[i].ret[1]

TypeOK ==
    /\ messages \in Refs
    /\ snap \in Refs \cup {NoRef}
    /\ snap # messages
    /\ maxMessages \in Caps
    /\ nextId \in 1..(MaxTurns + 1)
====
